---- MODULE Spec2Model ----
(***************************************************************************)
(* A model of OMWrapper's command/undo engine: the modifiers               *)
(* (api/modifiers), the add_modifier decorator, the attribute handler and  *)
(* its compound buffer (entities/attributes/base.py), the undoable         *)
(* property setters, create_node (general.py) and the object factory       *)
(* (entities/factory.py).                                                  *)
(*                                                                         *)
(* A call of the library is one action.  The body of every function is an  *)
(* operator from a world record to a world record; the field exc holds the *)
(* Python exception in flight ("none" when there is none) and log the      *)
(* events of the call in the order the code produces them.                 *)
(***************************************************************************)
EXTENDS Integers, Sequences, FiniteSets, TLC

VARIABLES
    names,            \* the scene: node id -> name, for the nodes that exist
    locked,           \* the scene: isLocked of the wrapped node
    attrs,            \* the scene: attribute objects attached to the wrapped node
    flags,            \* the scene: isKeyable / isChannelBox / isLocked of one plug
    fns,              \* the MFnAttribute objects built by AttrFactory
    compound_buffer,  \* AttributeHandler.compound_buffer
    added_compound,   \* AttributeHandler.added_compound
    mods,             \* the DGModifier objects made so far
    ledger,           \* the undo ledger (apiundo)
    registry,         \* PyObject._registry
    compound_mod,     \* the CompoundModifier the caller holds, if any
    clock,            \* the number of commits (doIt calls that returned) so far
    hist,             \* the calls before the last one, as far as a claim needs them
    last              \* the last call: what it was, how it ended, its events

vars == <<names, locked, attrs, flags, fns, compound_buffer, added_compound,
          mods, ledger, registry, compound_mod, clock, hist, last>>

----------------------------------------------------------------------------
(* Bounds of the model *)

\* attribute function sets built over a run
MaxFn == 2
\* commits (successful doIt calls) over a run
MaxCommits == 2
\* largest children_count of a compound descriptor
MaxK == 1
\* operations staged on the modifiers that are alive
MaxOps == 2

None == "None"
\* _modifier=None: no modifier object
NoMod == 0
NoExc == "none"

\* the node every DependNode call in the model is made on
TheNode == 0

----------------------------------------------------------------------------
(* Python and OpenMaya primitives *)

\* x[i] for a Python int x: int is not subscriptable
Subscript(x, i) ==
    IF x \in Int THEN [exc |-> "TypeError", v |-> 0]
    ELSE [exc |-> NoExc, v |-> x[i + 1]]

Raise(w, e) == [w EXCEPT !.exc = e]

\* a value that may be None and is no string otherwise: None, or the value
Nothing == <<>>
Just(x) == <<x>>

\* an event of a call: a stage, doIt, undoIt, commit or purge on the modifier m,
\* for a stage of addAttribute with the function set fn
Event(ev, m, fn) == [ev |-> ev, m |-> m, fn |-> fn]

Emit(w, ev) == [w EXCEPT !.log = Append(@, ev)]

\* the names an attribute object brings to a node: its own and its children's
RECURSIVE FamilyOf(_, _)
FamilyOf(w, fn) ==
    {fn} \cup UNION {FamilyOf(w, c) : c \in w.fns[fn].children}

\* MFnDependencyNode.hasAttribute
hasAttribute(w, n) == \E f \in w.attrs : w.fns[f].name = n

\* MFnDependencyNode.findPlug(name).attribute()
findPlug(w, n) == CHOOSE f \in w.attrs : w.fns[f].name = n

----------------------------------------------------------------------------
(* om.MDGModifier: a queue of operations, applied by doIt and reverted by  *)
(* undoIt (the native mutation primitives of the scene)                    *)

Op(kind, fn, node, name) ==
    [op |-> kind, fn |-> fn, node |-> node, name |-> name, old |-> ""]

\* the identity of a new object: the first one that no object of ids has
NewId(ids) ==
    CHOOSE i \in 1..(Cardinality(ids) + 1) :
        i \notin ids /\ \A j \in 1..(i - 1) : j \in ids

\* a new modifier object: DGModifier() or DagModifier()
NewModifier(w, owner, dag) ==
    LET id == NewId(DOMAIN w.mods) IN
    [w EXCEPT !.mods = [k \in DOMAIN @ \cup {id} |->
                           IF k = id
                           THEN [owner |-> owner, dag |-> dag, queue |-> <<>>,
                                 done |-> 0, ran |-> FALSE]
                           ELSE @[k]],
              !.new = id]

\* MDGModifier.addAttribute / renameNode / createNode: queue the operation
Stage(w, m, op) ==
    [w EXCEPT !.mods[m].queue = Append(@, op),
              !.log = Append(@, Event("stage", m, op.fn))]

\* whether the scene accepts the operation
CanApply(w, op) ==
    CASE op.op = "addAttribute" ->
           /\ ~w.locked
           /\ op.fn \notin w.attrs
           /\ \A f \in FamilyOf(w, op.fn) : ~hasAttribute(w, w.fns[f].name)
           /\ w.fns[op.fn].compound => w.fns[op.fn].children # {}
      [] op.op = "renameNode" ->
           /\ op.node \in DOMAIN w.names
           /\ op.node = TheNode => ~w.locked
      [] OTHER -> TRUE

ApplyOp(w, m, i) ==
    LET op == w.mods[m].queue[i] IN
    CASE op.op = "addAttribute" ->
           [w EXCEPT !.attrs = @ \cup FamilyOf(w, op.fn)]
      [] op.op = "renameNode" ->
           [w EXCEPT !.names[op.node] = op.name,
                     !.mods[m].queue[i].old = w.names[op.node]]
      [] op.op \in {"newPlugValueFloat", "newPlugValueInt"} -> w
      [] OTHER ->
           [w EXCEPT !.names = [n \in DOMAIN @ \cup {op.node} |->
                                   IF n = op.node THEN op.name ELSE @[n]]]

RevertOp(w, m, i) ==
    LET op == w.mods[m].queue[i] IN
    CASE op.op = "addAttribute" ->
           [w EXCEPT !.attrs = @ \ FamilyOf(w, op.fn)]
      [] op.op = "renameNode" ->
           [w EXCEPT !.names[op.node] = op.old]
      [] op.op \in {"newPlugValueFloat", "newPlugValueInt"} -> w
      [] OTHER ->
           [w EXCEPT !.names = [n \in DOMAIN @ \ {op.node} |-> @[n]]]

\* MDGModifier.doIt: apply the operations not applied yet, in queue order; the
\* first one the scene refuses raises, and the ones before it stay applied
RECURSIVE MDGModifier_doIt(_, _)
MDGModifier_doIt(w, m) ==
    LET i == w.mods[m].done + 1 IN
    IF i > Len(w.mods[m].queue) THEN w
    ELSE IF ~CanApply(w, w.mods[m].queue[i]) THEN Raise(w, "RuntimeError")
    ELSE MDGModifier_doIt([ApplyOp(w, m, i) EXCEPT !.mods[m].done = i], m)

\* MDGModifier.undoIt: revert the applied operations, last applied first
RECURSIVE MDGModifier_undoIt(_, _)
MDGModifier_undoIt(w, m) ==
    LET i == w.mods[m].done IN
    IF i = 0 THEN w
    ELSE MDGModifier_undoIt([RevertOp(w, m, i) EXCEPT !.mods[m].done = i - 1], m)

\* DGModifier.doIt
DGModifier_doIt(w, m) ==
    LET w1 == MDGModifier_doIt(Emit(w, Event("doIt", m, 0)), m) IN
    IF w1.exc # NoExc THEN w1
    ELSE [w1 EXCEPT !.mods[m].ran = TRUE, !.clock = @ + 1]

\* a faulty DGModifier.undoIt, which runs the batch again (used against C3)
DGModifier_undoIt_redoes(w, m) ==
    MDGModifier_doIt(Emit(w, Event("undoIt", m, 0)), m)

\* DGModifier.undoIt
DGModifier_undoIt(w, m) ==
    MDGModifier_undoIt(Emit(w, Event("undoIt", m, 0)), m)

\* a plug of the node: the attribute attr itself, or its child of index x;
\* data_type is what DataType.from_mobject finds for its attribute
Plug(attr, isCompound, numChildren, data_type) ==
    [attr |-> attr, child |-> Nothing, isCompound |-> isCompound,
     numChildren |-> numChildren, data_type |-> data_type]

\* MPlug.child(x): the children of the compounds of the model are floats
plug_child(plug, x) ==
    [attr |-> plug.attr, child |-> Just(x), isCompound |-> FALSE,
     numChildren |-> 0, data_type |-> "FLOAT"]

\* MDGModifier.newPlugValueFloat / newPlugValueInt (plug, value), as an
\* operation of the queue; the values of plugs are not part of the scene
PlugOp(kind, plug, value) ==
    [op |-> kind, fn |-> 0, node |-> TheNode, name |-> "", old |-> "",
     plug |-> plug, value |-> value]

\* DGModifier.set_plug_value, for a value that is no MObject and the data
\* types FLOAT and INT.  The return of line 74 is in the body of the for loop:
\* the call returns after the child of index 0; the else of line 75 belongs
\* to the for and is reached when the loop has no turn
RECURSIVE set_plug_value(_, _, _, _, _)
set_plug_value(w, m, plug, value, data_type) ==
    LET dt == IF data_type = None THEN plug.data_type ELSE data_type IN
    IF plug.isCompound /\ Len(value) >= plug.numChildren THEN
        IF plug.numChildren > 0
        THEN set_plug_value(w, m, plug_child(plug, 0), value[1], None)
        ELSE Raise(w, "ValueError")
    ELSE IF dt = "FLOAT" THEN Stage(w, m, PlugOp("newPlugValueFloat", plug, value))
    ELSE IF dt = "INT" THEN Stage(w, m, PlugOp("newPlugValueInt", plug, value))
    ELSE w

----------------------------------------------------------------------------
(* The direct, non-undoable property setters and ProxyModifier *)

\* Attribute.set_keyable_
set_keyable_(w, value) ==
    [w EXCEPT !.flags.keyable = value,
              !.flags.channelBox = IF ~value THEN TRUE ELSE FALSE]

\* Attribute.set_displayable_
set_displayable_(w, value) == [w EXCEPT !.flags.channelBox = value]

\* Attribute.set_locked_
set_locked_(w, value) == [w EXCEPT !.flags.locked = value]

\* DependNode.set_locked_
node_set_locked_(w, value) == [w EXCEPT !.locked = value]

\* the call func(value=value) of one of the four setters above
CallSetter(w, func, value) ==
    CASE func = "set_keyable_" -> set_keyable_(w, value)
      [] func = "set_displayable_" -> set_displayable_(w, value)
      [] func = "set_locked_" -> set_locked_(w, value)
      [] OTHER -> node_set_locked_(w, value)

\* ProxyModifier.__init__: undo_func defaults to do_func
ProxyModifier(do_func, do_value, undo_value) ==
    [kind |-> "ProxyModifier", m |-> 0, do_func |-> do_func, do_value |-> do_value,
     undo_func |-> do_func, undo_value |-> undo_value]

\* a reference to a DGModifier, in the shape of a ProxyModifier object
ModifierRef(m) ==
    [kind |-> "DGModifier", m |-> m, do_func |-> "", do_value |-> FALSE,
     undo_func |-> "", undo_value |-> FALSE]

\* ProxyModifier.doIt
ProxyModifier_doIt(w, p) ==
    LET w1 == CallSetter(Emit(w, Event("doIt", 0, 0)), p.do_func, p.do_value)
    IN  [w1 EXCEPT !.clock = @ + 1]

\* ProxyModifier.undoIt
ProxyModifier_undoIt(w, p) ==
    CallSetter(Emit(w, Event("undoIt", 0, 0)), p.undo_func, p.undo_value)

----------------------------------------------------------------------------
(* pytools.Iterator and CompoundModifier.  The compound of the caller is    *)
(* compound_mod[1]: its list modifiers, and ran, which tells whether doIt    *)
(* has been called.  A child is a DGModifier (ModifierRef) or a             *)
(* ProxyModifier.                                                           *)

\* Iterator.__init__
Iterator(data) == [data |-> data, n |-> 0]

\* Iterator.is_done
is_done(it) == it.n >= Len(it.data)

\* Iterator.current_item
current_item(it) ==
    IF it.n < Len(it.data) THEN [exc |-> NoExc, v |-> it.data[it.n + 1]]
    ELSE [exc |-> "IndexError", v |-> ModifierRef(NoMod)]

\* Iterator.next, alias of __next__
next(it) ==
    IF it.n < Len(it.data) THEN [exc |-> NoExc, it |-> [it EXCEPT !.n = @ + 1]]
    ELSE [exc |-> "StopIteration", it |-> it]

\* CompoundModifier.__init__: self.modifiers = list(args)
CompoundModifier(w, args) ==
    [w EXCEPT !.compound = <<[modifiers |-> args, ran |-> FALSE]>>]

\* CompoundModifier.append
CompoundModifier_append(w, modifier) ==
    [w EXCEPT !.compound[1].modifiers = Append(@, modifier)]

\* CompoundModifier.extend
CompoundModifier_extend(w, iterable) ==
    [w EXCEPT !.compound[1].modifiers = @ \o iterable]

\* it.current_item().doIt() and it.current_item().undoIt(), by the class of
\* the child
child_doIt(w, child) ==
    IF child.kind = "DGModifier" THEN DGModifier_doIt(w, child.m)
    ELSE ProxyModifier_doIt(w, child)

child_undoIt(w, child) ==
    IF child.kind = "DGModifier" THEN DGModifier_undoIt(w, child.m)
    ELSE ProxyModifier_undoIt(w, child)

\* the while loop of CompoundModifier.doIt / undoIt (undo tells which)
RECURSIVE compound_loop(_, _, _)
compound_loop(w, it, undo) ==
    IF is_done(it) THEN w
    ELSE
        LET item == current_item(it) IN
        IF item.exc # NoExc THEN Raise(w, item.exc)
        ELSE
            LET w1 == IF undo THEN child_undoIt(w, item.v) ELSE child_doIt(w, item.v)
                nx == next(it)
            IN  IF w1.exc # NoExc THEN w1
                ELSE IF nx.exc # NoExc THEN Raise(w1, nx.exc)
                ELSE compound_loop(w1, nx.it, undo)

\* a faulty CompoundModifier.doIt, which runs the children last first (used
\* against C15)
CompoundModifier_doIt_backwards(w) ==
    LET data == w.compound[1].modifiers IN
    compound_loop(w, Iterator([i \in DOMAIN data |-> data[Len(data) + 1 - i]]), FALSE)

\* CompoundModifier.doIt
CompoundModifier_doIt(w) ==
    compound_loop(w, Iterator(w.compound[1].modifiers), FALSE)

\* CompoundModifier.undoIt
CompoundModifier_undoIt(w) ==
    compound_loop(w, Iterator(w.compound[1].modifiers), TRUE)

----------------------------------------------------------------------------
(* apiundo: the undo ledger.  A stack of (undo, redo) pairs of bound        *)
(* methods; commit pushes one pair and an undo of the host pops the last    *)
(* pair and calls its undo.                                                 *)

\* a faulty apiundo.commit, which puts the pair under the stack (used against C5)
apiundo_commit_under(w, obj) ==
    [w EXCEPT !.ledger = <<[obj |-> obj, tick |-> w.clock]>> \o @,
              !.log = Append(@, Event("commit", obj.m, 0))]

\* apiundo.commit(undo=obj.undoIt, redo=obj.doIt)
apiundo_commit(w, obj) ==
    [w EXCEPT !.ledger = Append(@, [obj |-> obj, tick |-> w.clock]),
              !.log = Append(@, Event("commit", obj.m, 0))]

\* the undo of the host application: pop the last pair, call its undo
apiundo_undo(w) ==
    LET e == w.ledger[Len(w.ledger)]
        w1 == [w EXCEPT !.ledger = SubSeq(@, 1, Len(@) - 1)]
    IN  IF e.obj.kind = "DGModifier" THEN DGModifier_undoIt(w1, e.obj.m)
        ELSE ProxyModifier_undoIt(w1, e.obj)

----------------------------------------------------------------------------
(* AttributeHandler: the compound buffer *)

\* MFnCompoundAttribute.numChildren
numChildren(w, fn) == Cardinality(w.fns[fn].children)

\* MFnCompoundAttribute.addChild
addChild(w, parent_fn, fn) == [w EXCEPT !.fns[parent_fn].children = @ \cup {fn}]

\* compound_buffer is a dict: its keys in insertion order, and d[fn]
BufKeys(w) == {w.buf[i].fn : i \in DOMAIN w.buf}

BufGet(w, fn) == w.buf[CHOOSE i \in DOMAIN w.buf : w.buf[i].fn = fn].count

\* AttributeHandler._buffer_compound
_buffer_compound(w, fn, children_count) ==
    IF fn \in BufKeys(w)
    THEN [w EXCEPT !.buf = [i \in DOMAIN @ |->
                               IF @[i].fn = fn
                               THEN [fn |-> fn, count |-> children_count] ELSE @[i]]]
    ELSE [w EXCEPT !.buf = Append(@, [fn |-> fn, count |-> children_count])]

\* AttributeHandler._is_ready: the first statement subscripts the stored count
_is_ready(w, fn) ==
    LET count == Subscript(BufGet(w, fn), 1) IN
    IF count.exc # NoExc THEN [exc |-> count.exc, v |-> FALSE]
    ELSE IF fn \in {w.added[i] : i \in DOMAIN w.added} THEN [exc |-> NoExc, v |-> FALSE]
    ELSE IF numChildren(w, fn) >= count.v THEN [exc |-> NoExc, v |-> TRUE]
    ELSE [exc |-> NoExc, v |-> FALSE]

\* AttributeHandler._do_add
_do_add(w, fn, m) ==
    LET w1 == Stage(w, m, Op("addAttribute", fn, TheNode, "")) IN
    IF fn \in BufKeys(w1) THEN [w1 EXCEPT !.added = Append(@, fn)] ELSE w1

\* AttributeHandler._eval_compound_buffer, called with one attribute
_eval_compound_buffer(w, fn, m) ==
    LET ready == _is_ready(w, fn) IN
    IF ready.exc # NoExc THEN Raise(w, ready.exc)
    ELSE IF ready.v THEN _do_add(w, fn, m)
    ELSE w

\* the places of the buffer that hold a compound named name
Pending(w, name) == {i \in DOMAIN w.buf : w.fns[w.buf[i].fn].name = name}

\* AttributeHandler._find_pending_compound: the first match, in the order of
\* the dict
_find_pending_compound(w, name) ==
    IF Pending(w, name) = {} THEN [exc |-> "ValueError", v |-> 0]
    ELSE [exc |-> NoExc,
          v |-> w.buf[CHOOSE i \in Pending(w, name) :
                          \A j \in Pending(w, name) : i <= j].fn]

\* a faulty add_attribute, which adds the attribute to the node when its parent
\* is not found (used against C27)
add_attribute_adds_orphan(w, fn, children_count, parent, m) ==
    IF parent = None THEN
        IF w.fns[fn].compound THEN _buffer_compound(w, fn, children_count)
        ELSE _do_add(w, fn, m)
    ELSE IF hasAttribute(w, parent) THEN
        LET w1 == _do_add(w, fn, m)
            plug == findPlug(w1, parent)
        IN  IF ~w1.fns[plug].compound THEN Raise(w1, "RuntimeError")
            ELSE addChild(w1, plug, fn)
    ELSE
        LET parent_fn == _find_pending_compound(w, parent) IN
        IF parent_fn.exc # NoExc THEN _do_add(w, fn, m)
        ELSE _eval_compound_buffer(addChild(w, parent_fn.v, fn), parent_fn.v, m)

\* AttributeHandler.add_attribute, the undecorated body
add_attribute(w, fn, children_count, parent, m) ==
    IF parent = None THEN
        IF w.fns[fn].compound THEN _buffer_compound(w, fn, children_count)
        ELSE _do_add(w, fn, m)
    ELSE IF hasAttribute(w, parent) THEN
        LET w1 == _do_add(w, fn, m)
            plug == findPlug(w1, parent)
        IN  IF ~w1.fns[plug].compound THEN Raise(w1, "RuntimeError")
            ELSE addChild(w1, plug, fn)
    ELSE
        LET parent_fn == _find_pending_compound(w, parent) IN
        IF parent_fn.exc # NoExc THEN Raise(w, parent_fn.exc)
        ELSE _eval_compound_buffer(addChild(w, parent_fn.v, fn), parent_fn.v, m)

\* AttributeHandler.purge: dict.pop raises KeyError on a key that is gone
RECURSIVE purge_loop(_, _)
purge_loop(w, i) ==
    IF i > Len(w.added) THEN [w EXCEPT !.added = <<>>]
    ELSE IF w.added[i] \notin BufKeys(w) THEN Raise(w, "KeyError")
    ELSE purge_loop([w EXCEPT !.buf = SelectSeq(@, LAMBDA e : e.fn # w.added[i])], i + 1)

\* a faulty purge, which empties the buffer (used against C28)
purge_clears_buffer(w) ==
    [Emit(w, Event("purge", 0, 0)) EXCEPT !.buf = <<>>, !.added = <<>>]

purge(w) == purge_loop(Emit(w, Event("purge", 0, 0)), 1)

----------------------------------------------------------------------------
(* add_modifier *)

\* a faulty commit step, which pushes the pair before doIt runs (used against C8)
wrapper_commit_pushes_first(w, modifier, undo) ==
    LET w1 == IF undo THEN apiundo_commit(w, ModifierRef(modifier)) ELSE w
    IN  DGModifier_doIt(w1, modifier)

\* add_modifier.wrapper, lines 47-51: modifier.doIt(), then the push
wrapper_commit(w, modifier, undo) ==
    LET w1 == DGModifier_doIt(w, modifier) IN
    IF w1.exc # NoExc THEN w1
    ELSE IF undo THEN apiundo_commit(w1, ModifierRef(modifier))
    ELSE w1

----------------------------------------------------------------------------
(* DependNode *)

\* the bounds of a function set on which no setter was called
NoBounds ==
    [min |-> Nothing, max |-> Nothing, soft_min |-> Nothing, soft_max |-> Nothing]

\* MFnNumericAttribute.setMin / MFnUnitAttribute.setMin
setMin(bounds, value) == [bounds EXCEPT !.min = Just(value)]

\* AttrFactory, lines 620-629: the bounds and soft bounds of a UNIT or NUMERIC
\* attribute; every one that is given is passed to setMin
set_bounds(data) ==
    LET b0 == NoBounds
        b1 == IF data.min # Nothing THEN setMin(b0, data.min[1]) ELSE b0
        b2 == IF data.max # Nothing THEN setMin(b1, data.max[1]) ELSE b1
        b3 == IF data.soft_min # Nothing THEN setMin(b2, data.soft_min[1]) ELSE b2
        b4 == IF data.soft_max # Nothing THEN setMin(b3, data.soft_max[1]) ELSE b3
    IN  IF data.attr_type \in {"UNIT", "NUMERIC"} THEN b4 ELSE b0

\* AttrFactory: a new function set for the descriptor
AttrFactory(w, data) ==
    LET id == NewId(DOMAIN w.fns) IN
    [w EXCEPT !.fns = [f \in DOMAIN @ \cup {id} |->
                          IF f = id
                          THEN [name |-> data.long_name, compound |-> data.compound,
                                children |-> {}, bounds |-> set_bounds(data)]
                          ELSE @[f]],
              !.new = id]

\* DependNode.rename: the undecorated body
rename(w, name, m) ==
    [Stage(w, m, Op("renameNode", 0, TheNode, name)) EXCEPT !.ret = w.names[TheNode]]

\* func(*args, **kwargs) of the wrapper: the decorated function and what it is
\* called with
CallFunc(w, call, m) ==
    IF call.func = "add_attribute"
    THEN add_attribute(w, call.fn, call.children_count, call.parent, m)
    ELSE rename(w, call.name, m)

\* a faulty wrapper, which leaves out post_call (used against C20)
wrapper_skips_post_call(w, call, supplied, undo, post_call) ==
    IF supplied = NoMod THEN
        LET w1 == NewModifier(w, "wrapper", FALSE)
            w2 == CallFunc(w1, call, w1.new)
        IN  IF w2.exc # NoExc THEN w2
            ELSE wrapper_commit(w2, w1.new, undo)
    ELSE CallFunc(w, call, supplied)

\* add_modifier.wrapper around func, for a call that gives _modifier by keyword
\* (supplied) or not at all (NoMod)
wrapper(w, call, supplied, undo, post_call) ==
    IF supplied = NoMod THEN
        LET w1 == NewModifier(w, "wrapper", FALSE)
            w2 == CallFunc(w1, call, w1.new)
        IN  IF w2.exc # NoExc THEN w2
            ELSE LET w3 == wrapper_commit(w2, w1.new, undo) IN
                 IF w3.exc # NoExc THEN w3
                 ELSE IF post_call THEN purge(w3)
                 ELSE w3
    ELSE CallFunc(w, call, supplied)

\* DependNode.add_attr
DependNode_add_attr(w, data, m) ==
    LET w1 == AttrFactory(w, data)
        call == [func |-> "add_attribute", fn |-> w1.new,
                 children_count |-> data.children_count, parent |-> data.parent]
    IN  IF hasAttribute(w1, data.long_name) \/ hasAttribute(w1, data.short_name)
        THEN Raise(w1, "NameError")
        ELSE wrapper(w1, call, m, TRUE, TRUE)

\* DependNode.rename, decorated with add_modifier(DGModifier, undo=True); a
\* modifier given by position is not seen by the wrapper, which adds its own by
\* keyword: the call of the body then has two values for _modifier
DependNode_rename(w, name, m, positional) ==
    IF m # NoMod /\ positional
    THEN Raise(NewModifier(w, "wrapper", FALSE), "TypeError")
    ELSE wrapper(w, [func |-> "rename", name |-> name], m, TRUE, FALSE)

\* DependNode.set_locked: return modifier
DependNode_set_locked(w, value) ==
    LET old_value == w.locked
        modifier == ProxyModifier("node_set_locked_", value, old_value)
        w1 == ProxyModifier_doIt(w, modifier)
    IN  [apiundo_commit(w1, modifier) EXCEPT !.ret = Just(modifier)]

\* AttrContext.__exit__
AttrContext_exit(w, modifier, undo) ==
    LET w1 == DGModifier_doIt(w, modifier) IN
    IF w1.exc # NoExc THEN w1
    ELSE purge(IF undo THEN apiundo_commit(w1, ModifierRef(modifier)) ELSE w1)

----------------------------------------------------------------------------
(* PyObject: the factory and its registry *)

\* ObjectType, in the order of the enumeration, and object_type_to_mfn
ObjectType == <<"DEPEND_NODE", "DAG_NODE", "ATTRIBUTE", "COMPONENT">>

to_mfn(t) ==
    CASE t = "DEPEND_NODE" -> "kDependencyNode"
      [] t = "DAG_NODE" -> "kDagNode"
      [] t = "ATTRIBUTE" -> "kAttribute"
      [] OTHER -> "kComponent"

\* the function sets of the handles the factory is asked about: a dependency
\* node, a dag node, an attribute, a component, and an object of no category
Handles ==
    {{"kDependencyNode"}, {"kDependencyNode", "kDagNode"}, {"kAttribute"},
     {"kComponent"}, {}}

Classes == {"DependNode", "Attribute"}

\* PyObject.register
register(w, object_type, cls) ==
    [w EXCEPT !.registry = [t \in DOMAIN @ \cup {object_type} |->
                               IF t = object_type THEN cls ELSE @[t]]]

\* ObjectType.get_subtype: the class ObjectType has no such attribute
get_subtype(global_type) == [exc |-> "AttributeError", v |-> <<>>]

\* the first member of the enumeration whose function set the object has
\* (0 when there is none): the for loop of class_from_api_object
FirstMatch(h, enum) ==
    IF \E i \in DOMAIN enum : to_mfn(enum[i]) \in h
    THEN CHOOSE i \in DOMAIN enum :
            /\ to_mfn(enum[i]) \in h
            /\ \A j \in DOMAIN enum : to_mfn(enum[j]) \in h => i <= j
    ELSE 0

\* PyObject.class_from_api_object
class_from_api_object(w, h) ==
    LET i == FirstMatch(h, ObjectType) IN
    IF i = 0 THEN Raise(w, "TypeError")
    ELSE
        LET global_type == ObjectType[i]
            sub_type_enum == get_subtype(global_type)
        IN  IF sub_type_enum.exc # NoExc THEN Raise(w, sub_type_enum.exc)
            ELSE
                LET j == FirstMatch(h, sub_type_enum.v)
                    exact_type == IF j = 0 THEN global_type ELSE sub_type_enum.v[j]
                IN  IF exact_type \notin DOMAIN w.registry
                    THEN Raise(w, "NotImplementedError")
                    ELSE [w EXCEPT !.ret = w.registry[exact_type]]

\* PyObject._create called with keyword arguments only (CASE 4); keys are the
\* keywords given and h the function sets of the object they stand for
PyObject_create(w, keys, h) ==
    IF keys \cap {"MDagPath", "MObject", "MObjectHandle", "MPlug"} = {}
    THEN Raise(w, "AssertionError")
    ELSE IF "MPlug" \in keys \/ "MObjectHandle" \in keys
    THEN class_from_api_object(w, h)
    ELSE IF "MObject" \notin keys
    THEN class_from_api_object(w, h)
    ELSE Raise(w, "ValueError")

\* PyObject._create called with one positional API object (CASE 3): the object
\* is filed under the name of its class and _create is called again with the
\* keyword
PyObject_create_arg(w, class_name, h) ==
    IF class_name \notin {"MDagPath", "MObjectHandle", "MObject", "MPlug"}
    THEN Raise(w, "AssertionError")
    ELSE PyObject_create(w, {class_name}, h)

----------------------------------------------------------------------------
(* general.create_node *)

\* the objects there are: the nodes of the scene and the ones a modifier some
\* caller or the ledger still holds has made
Staged(w) ==
    DOMAIN w.names \cup
    UNION {{w.mods[k].queue[j].node : j \in {i \in DOMAIN w.mods[k].queue :
                                          w.mods[k].queue[i].op = "createNode"}} :
           k \in DOMAIN w.mods}

\* DGModifier.create_node / DagModifier.create_node: only the second takes a
\* parent; the new object is named after its type unless a name is given
Modifier_create_node(w, m, name, with_parent) ==
    IF with_parent /\ ~w.mods[m].dag THEN Raise(w, "TypeError")
    ELSE
        LET mobj == NewId(Staged(w))
            w1 == Stage(w, m, Op("createNode", 0, mobj, "transform1"))
        IN  [(IF name # None THEN Stage(w1, m, Op("renameNode", 0, mobj, name))
              ELSE w1) EXCEPT !.new = mobj]

\* create_node, lines 66-68: mod.doIt(), then the push
create_node_commit(w, mod) ==
    LET w1 == DGModifier_doIt(w, mod) IN
    IF w1.exc # NoExc THEN w1
    ELSE apiundo_commit(w1, ModifierRef(mod))

\* a faulty create_node, which runs doIt and pushes whatever the caller gave
\* (used against C7)
create_node_always_does_it(w, name, with_parent, m, is_dag) ==
    LET w0 == IF m = NoMod THEN NewModifier(w, "wrapper", is_dag) ELSE w
        mod == IF m = NoMod THEN w0.new ELSE m
        w1 == Modifier_create_node(w0, mod, name, with_parent)
        w2 == IF w1.exc = NoExc THEN create_node_commit(w1, mod) ELSE w1
    IN  IF w2.exc # NoExc THEN w2
        ELSE PyObject_create(w2, {"MObject"},
                 IF is_dag THEN {"kDependencyNode", "kDagNode"}
                 ELSE {"kDependencyNode"})

\* general.create_node; is_dag is the kind of the node type, given or looked up
create_node(w, name, with_parent, m, is_dag) ==
    LET w0 == IF m = NoMod THEN NewModifier(w, "wrapper", is_dag) ELSE w
        mod == IF m = NoMod THEN w0.new ELSE m
        do_it == m = NoMod
        w1 == Modifier_create_node(w0, mod, name, with_parent)
        w2 == IF w1.exc = NoExc /\ do_it THEN create_node_commit(w1, mod) ELSE w1
    IN  IF w2.exc # NoExc THEN w2
        ELSE PyObject_create(w2, {"MObject"},
                 IF is_dag THEN {"kDependencyNode", "kDagNode"}
                 ELSE {"kDependencyNode"})

----------------------------------------------------------------------------
(* Attribute: the undoable property setters *)

\* recycle_mplug: without an mplug keyword it calls inst.apim_plug(), a method
\* Attribute does not have
recycle_mplug(w, mplug_given) ==
    IF mplug_given THEN w ELSE Raise(w, "AttributeError")

\* the getter of the property a setter writes
Getter(w, func) ==
    CASE func = "set_keyable_" -> w.flags.keyable
      [] func = "set_displayable_" -> w.flags.channelBox
      [] func = "set_locked_" -> w.flags.locked
      [] OTHER -> w.locked

\* a faulty undoable setter, which reads the old value after doIt (used against C4)
undoable_set_reads_late(w, func, value) ==
    LET w1 == ProxyModifier_doIt(w, ProxyModifier(func, value, value))
        old_value == Getter(w1, func)
    IN  [apiundo_commit(w1, ProxyModifier(func, value, old_value)) EXCEPT !.ret = Nothing]

\* the body shared by Attribute.set_keyable, set_displayable and set_locked:
\* read the old value, build the ProxyModifier, doIt, push; there is no return
\* statement, the call returns None
undoable_set(w, func, value) ==
    LET old_value == Getter(w, func)
        modifier == ProxyModifier(func, value, old_value)
        w1 == ProxyModifier_doIt(w, modifier)
    IN  [apiundo_commit(w1, modifier) EXCEPT !.ret = Nothing]

\* Attribute.set_keyable / set_displayable / set_locked
Attribute_set(w, func, value, mplug_given) ==
    LET w1 == recycle_mplug(w, mplug_given) IN
    IF w1.exc # NoExc THEN w1 ELSE undoable_set(w1, func, value)

----------------------------------------------------------------------------
(* AttrData: the descriptor of an attribute, and its enum fields.  A Python *)
(* str is a sequence of characters; a value that may be None is Nothing or  *)
(* Just(value).                                                             *)

\* enum fields in an enum_names string of the calls
MaxFields == 2
\* largest integer of an enum field of the calls
MaxEnumValue == 11

Digits == <<"0", "1", "2", "3", "4", "5", "6", "7", "8", "9">>

\* str(n) for an int n >= 0
RECURSIVE str(_)
str(n) == IF n < 10 THEN <<Digits[n + 1]>> ELSE str(n \div 10) \o <<Digits[(n % 10) + 1]>>

\* int(s) for a str s of the alphabet of the model (letters, digits, = and :):
\* ValueError unless s is one or more decimal digits
RECURSIVE int(_)
int(s) ==
    IF s = <<>> \/ \E i \in DOMAIN s : \A d \in DOMAIN Digits : s[i] # Digits[d]
    THEN [exc |-> "ValueError", v |-> 0]
    ELSE LET d == CHOOSE k \in DOMAIN Digits : Digits[k] = s[Len(s)] IN
         [exc |-> NoExc,
          v |-> IF Len(s) = 1 THEN d - 1
                ELSE (int(SubSeq(s, 1, Len(s) - 1)).v * 10) + d - 1]

\* s.split(sep) for a one-character sep
RECURSIVE split(_, _)
split(s, sep) ==
    IF \A i \in DOMAIN s : s[i] # sep THEN <<s>>
    ELSE LET i == CHOOSE k \in DOMAIN s : s[k] = sep /\ \A j \in 1..(k - 1) : s[j] # sep
         IN  <<SubSeq(s, 1, i - 1)>> \o split(SubSeq(s, i + 1, Len(s)), sep)

\* the loop of enum_str_to_field over the pieces from the n-th on (n from 0)
RECURSIVE enum_fields_loop(_, _, _)
enum_fields_loop(pieces, n, enum_fields) ==
    IF n >= Len(pieces) THEN [exc |-> NoExc, v |-> enum_fields]
    ELSE
        LET enum_field == pieces[n + 1] IN
        IF \E i \in DOMAIN enum_field : enum_field[i] = "="
        THEN LET parts == split(enum_field, "=")
                 value == int(parts[2])
             IN  IF value.exc # NoExc THEN [exc |-> value.exc, v |-> enum_fields]
                 ELSE enum_fields_loop(pieces, n + 1,
                                       Append(enum_fields, <<parts[1], value.v>>))
        ELSE enum_fields_loop(pieces, n + 1, Append(enum_fields, <<enum_field, n>>))

\* AttrData.enum_str_to_field
enum_str_to_field(enum_names) == enum_fields_loop(split(enum_names, ":"), 0, <<>>)

\* list.append(*args) on the value l of an attribute that may be None
list_append(l, args) ==
    IF l = Nothing THEN [exc |-> "AttributeError", v |-> l]
    ELSE IF Len(args) # 1 THEN [exc |-> "TypeError", v |-> l]
    ELSE [exc |-> NoExc, v |-> Just(Append(l[1], args[1]))]

\* DataType.numeric() and DataType.unit(), for the data types of the calls
numeric == {"FLOAT", "FLOAT3", "BOOL"}
unit == {"ANGLE"}

\* AttrType.from_data_type
from_data_type(data_type) ==
    IF data_type \in numeric THEN "NUMERIC"
    ELSE IF data_type \in unit THEN "UNIT"
    ELSE IF data_type = "ENUM" THEN "ENUM"
    ELSE IF data_type = "STRING" THEN "STRING"
    ELSE "INVALID"

\* min(enum_fields, key=lambda x: x[1])[1]: ValueError for an empty list
min_field(enum_fields) ==
    IF enum_fields = <<>> THEN [exc |-> "ValueError", v |-> 0]
    ELSE [exc |-> NoExc,
          v |-> CHOOSE x \in {enum_fields[i][2] : i \in DOMAIN enum_fields} :
                   \A i \in DOMAIN enum_fields : x <= enum_fields[i][2]]

\* AttrData._process_data from the guess of the attribute type on (lines 516-558)
process_types(self) ==
    LET guessed == IF self.attr_type = None
                   THEN [self EXCEPT !.attr_type = from_data_type(self.data_type)]
                   ELSE self
    IN
    IF guessed.attr_type = "INVALID" THEN [exc |-> "TypeError", v |-> guessed]
    ELSE IF guessed.attr_type \in {"UNIT", "NUMERIC"} /\ guessed.data_type # "FLOAT3" THEN
        IF guessed.data_type \notin numeric \cup unit
        THEN [exc |-> "AssertionError", v |-> guessed]
        ELSE LET dv == IF guessed.default_value = Nothing THEN Just(0)
                       ELSE guessed.default_value
             IN  [exc |-> NoExc,
                  v |-> [guessed EXCEPT
                            !.default_value = dv,
                            !.create_args = Just(@[1] \o <<guessed.data_type, dv>>)]]
    ELSE IF guessed.attr_type = "STRING" THEN
        [exc |-> NoExc,
         v |-> [guessed EXCEPT
                   !.create_args = Just(@[1] \o <<"kString", guessed.default_value>>)]]
    ELSE IF guessed.attr_type = "ENUM" THEN
        LET parsed == IF guessed.enum_names # Nothing
                      THEN enum_str_to_field(guessed.enum_names[1])
                      ELSE [exc |-> IF guessed.enum_fields = Nothing THEN "ValueError"
                                    ELSE NoExc,
                            v |-> IF guessed.enum_fields = Nothing THEN <<>>
                                  ELSE guessed.enum_fields[1]]
            smallest == min_field(parsed.v)
        IN  IF parsed.exc # NoExc THEN [exc |-> parsed.exc, v |-> guessed]
            ELSE IF guessed.default_value # Nothing
            THEN [exc |-> NoExc, v |-> [guessed EXCEPT !.enum_fields = Just(parsed.v)]]
            ELSE IF smallest.exc # NoExc THEN [exc |-> smallest.exc, v |-> guessed]
            ELSE [exc |-> NoExc,
                  v |-> [guessed EXCEPT !.enum_fields = Just(parsed.v),
                                        !.default_value = Just(smallest.v)]]
    ELSE IF guessed.attr_type = "COMPOUND"
            /\ (guessed.children_count = Nothing \/ guessed.children_count = Just(0))
    THEN [exc |-> "ValueError", v |-> guessed]
    ELSE [exc |-> NoExc, v |-> guessed]

\* AttrData._process_data: the short name, the first construction arguments,
\* then the rest
process_data(self) ==
    LET named == IF self.short_name = None
                 THEN [self EXCEPT !.short_name = self.long_name]
                 ELSE self
        appended == list_append(named.create_args, <<named.long_name, named.short_name>>)
    IN  IF appended.exc # NoExc THEN [exc |-> appended.exc, v |-> named]
        ELSE process_types([named EXCEPT !.create_args = appended.v])

\* AttrData(long_name, ...): the generated __init__ stores the arguments (the
\* default of create_args is None), then __post_init__ runs _process_data
AttrData_init(args) == process_data(args)

----------------------------------------------------------------------------
(* The state machine: every call of the library is one step *)

\* the world the operators above work on, read from the variables
World ==
    [names |-> names, locked |-> locked, attrs |-> attrs, flags |-> flags,
     fns |-> fns, buf |-> compound_buffer, added |-> added_compound,
     mods |-> mods, ledger |-> ledger, registry |-> registry,
     compound |-> compound_mod, clock |-> clock,
     exc |-> NoExc, log |-> <<>>, ret |-> None, new |-> 0]

\* the scene, as an observer sees it
Scene(w) == [names |-> w.names, locked |-> w.locked, attrs |-> w.attrs]

NoScene == [names |-> <<>>, locked |-> FALSE, attrs |-> {}]

\* the operations staged on the modifiers that are alive
Ops(w) == UNION {{<<k, i>> : i \in DOMAIN w.mods[k].queue} : k \in DOMAIN w.mods}

\* Python frees an object nothing refers to: a modifier neither the caller nor
\* the ledger holds, a function set that is in no queue, no buffer and no
\* compound and is not on the node
Collect(w) ==
    LET held == {k \in DOMAIN w.mods :
                    \/ w.mods[k].owner = "caller"
                    \/ \E i \in DOMAIN w.ledger : w.ledger[i].obj.m = k
                    \/ \E c \in DOMAIN w.compound :
                           \E i \in DOMAIN w.compound[c].modifiers :
                               w.compound[c].modifiers[i].m = k}
        roots == w.attrs \cup BufKeys(w)
                     \cup {w.mods[k[1]].queue[k[2]].fn : k \in {o \in Ops(w) : o[1] \in held}}
        used == UNION {FamilyOf(w, f) : f \in roots \cap DOMAIN w.fns}
    IN  [w EXCEPT !.mods = [k \in held |-> @[k]],
                  !.fns = [f \in used |-> @[f]]]

\* what is kept of a call: op(a, _modifier=m) on the handle h
Call(op, a, m) ==
    [op |-> op, a |-> a, m |-> m, h |-> {}, pre |-> NoScene, fresh |-> FALSE,
     moved |-> FALSE]

\* node.add_attr(d, _modifier=m): the call keeps the descriptor
AddCall(d, m) == [Call("add_attr", d.long_name, m) EXCEPT !.h = d]

\* the step to the world r the call ends in
Finish(r, call) ==
    LET g == Collect(r) IN
    /\ names' = g.names
    /\ locked' = g.locked
    /\ attrs' = g.attrs
    /\ flags' = g.flags
    /\ fns' = g.fns
    /\ compound_buffer' = g.buf
    /\ added_compound' = g.added
    /\ mods' = g.mods
    /\ ledger' = g.ledger
    /\ registry' = g.registry
    /\ compound_mod' = g.compound
    /\ clock' = g.clock
    /\ last' = [op |-> call.op, a |-> call.a, m |-> call.m, h |-> call.h,
                pre |-> call.pre, fresh |-> call.fresh, moved |-> call.moved,
                exc |-> r.exc, ret |-> r.ret, log |-> r.log]

\* the modifiers the caller holds
CallerMods == {m \in DOMAIN mods : mods[m].owner = "caller"}

AttrData(long_name, compound, children_count, parent) ==
    [long_name |-> long_name, short_name |-> long_name, compound |-> compound,
     attr_type |-> IF compound THEN "COMPOUND" ELSE "NUMERIC",
     min |-> Nothing, max |-> Nothing, soft_min |-> Nothing, soft_max |-> Nothing,
     children_count |-> children_count, parent |-> parent]

\* the descriptors of the calls: the compound grp with its children_count, and
\* the leaves a and b, on the node or under grp
AttrDatas ==
    {AttrData("grp", TRUE, k, None) : k \in 1..MaxK}
        \cup {AttrData("a", FALSE, 0, p) : p \in {None, "grp"}}
        \cup {AttrData("b", FALSE, 0, "grp")}

Init ==
    /\ names = [n \in {TheNode} |-> "node_a"]
    /\ locked = FALSE
    /\ attrs = {}
    /\ flags = [keyable |-> FALSE, channelBox |-> FALSE, locked |-> FALSE]
    /\ fns = [f \in {} |-> 0]
    /\ compound_buffer = <<>>
    /\ added_compound = <<>>
    /\ mods = [k \in {} |-> 0]
    /\ ledger = <<>>
    /\ registry = [t \in {} |-> ""]
    /\ compound_mod = <<>>
    /\ clock = 0
    /\ hist = <<>>
    /\ last = [op |-> "init", a |-> "", m |-> NoMod, h |-> {}, pre |-> NoScene,
               fresh |-> FALSE, moved |-> FALSE, exc |-> NoExc, ret |-> None,
               log |-> <<>>]

\* the caller makes a modifier: mod = DGModifier() or mod = DagModifier()
MakeModifier ==
    /\ CallerMods = {}
    /\ Finish(NewModifier(World, "caller", FALSE), Call("Modifier", "", NoMod))
    /\ UNCHANGED hist

\* node.add_attr(data) and node.add_attr(data, _modifier=m)
AddAttr ==
    \E d \in AttrDatas, m \in CallerMods \cup {NoMod} :
        /\ Cardinality(DOMAIN fns) < MaxFn
        /\ Cardinality(Ops(World)) < MaxOps
        /\ m = NoMod => clock < MaxCommits
        /\ Finish(DependNode_add_attr(World, d, m), AddCall(d, m))
        /\ UNCHANGED hist

\* mod.doIt() by the caller; the call keeps the scene it started from (pre)
\* and whether nothing of the modifier was applied yet (fresh)
DoIt ==
    \E m \in CallerMods :
        /\ clock < MaxCommits
        /\ Finish(DGModifier_doIt(World, m),
                  [Call("doIt", "", m) EXCEPT
                      !.pre = Scene(World), !.fresh = mods[m].done = 0])
        /\ UNCHANGED hist

\* mod.undoIt() by the caller; when it follows the doIt of a fresh modifier it
\* keeps the scene that doIt started from (pre) and whether doIt changed it
\* (moved)
UndoIt ==
    \E m \in CallerMods :
        LET paired == last.op = "doIt" /\ last.m = m /\ last.fresh IN
        /\ Finish(DGModifier_undoIt(World, m),
                  [Call("undoIt", "", m) EXCEPT
                      !.pre = IF paired THEN last.pre ELSE NoScene,
                      !.fresh = paired,
                      !.moved = paired /\ last.pre # Scene(World)])
        /\ UNCHANGED hist

\* node.attr_handler().purge() by the caller
Purge ==
    /\ Finish(purge(World), Call("purge", "", NoMod))
    /\ UNCHANGED hist

\* the end of a block "with AttrContext(handler, mod, undo):"
AttrContextExit ==
    \E m \in CallerMods, undo \in BOOLEAN :
        /\ clock < MaxCommits
        /\ Finish(AttrContext_exit(World, m, undo),
                  Call("AttrContext", IF undo THEN "undo" ELSE "no_undo", m))
        /\ UNCHANGED hist

\* node.rename(name), node.rename(name, _modifier=m) and node.rename(name, m)
Rename ==
    \E m \in CallerMods \cup {NoMod}, positional \in BOOLEAN :
        /\ positional => m # NoMod
        /\ Cardinality(Ops(World)) < MaxOps
        /\ clock < MaxCommits
        /\ Finish(DependNode_rename(World, "node_b", m, positional),
                  Call(IF positional THEN "rename_positional" ELSE "rename", "", m))
        /\ UNCHANGED hist

\* create_node(node_type, name, parent, _modifier, _is_dag)
CreateNode ==
    \E n \in {None, "child_a"}, with_parent \in BOOLEAN, m \in CallerMods \cup {NoMod},
       is_dag \in BOOLEAN :
        /\ Cardinality(Ops(World)) < MaxOps
        /\ m = NoMod => clock < MaxCommits
        /\ Finish(create_node(World, n, with_parent, m, is_dag),
                  Call("create_node", "", m))
        /\ UNCHANGED hist

\* node.set_locked(value)
SetLocked ==
    \E value \in BOOLEAN :
        /\ clock < MaxCommits
        /\ Finish(DependNode_set_locked(World, value), Call("set_locked", "", NoMod))
        /\ UNCHANGED hist

\* an undo of the host application
Undo ==
    /\ ledger # <<>>
    /\ Finish(apiundo_undo(World), Call("undo", "", ledger[Len(ledger)].obj.m))
    /\ UNCHANGED hist

\* the attribute handler: add_attr, the caller's modifier, purge and undo
Next ==
    \/ MakeModifier
    \/ AddAttr
    \/ DoIt
    \/ UndoIt
    \/ Purge
    \/ AttrContextExit
    \/ Undo

Spec == Init /\ [][Next]_vars

\* the node: rename, create_node, set_locked, the caller's modifier and undo
NextNode ==
    \/ MakeModifier
    \/ Rename
    \/ CreateNode
    \/ SetLocked
    \/ DoIt
    \/ UndoIt
    \/ AttrContextExit
    \/ Undo

SpecNode == Init /\ [][NextNode]_vars

----------------------------------------------------------------------------
(* The properties of a plug and of the node, set through the undoable setters *)

\* calls kept in hist
HistLen == 4

Remember(e) ==
    hist' = IF Len(hist) < HistLen THEN Append(hist, e) ELSE Append(Tail(hist), e)

InitProp ==
    /\ names = [n \in {TheNode} |-> "node_a"]
    /\ locked \in BOOLEAN
    /\ attrs = {}
    /\ flags \in [keyable : BOOLEAN, channelBox : BOOLEAN, locked : BOOLEAN]
    /\ fns = [f \in {} |-> 0]
    /\ compound_buffer = <<>>
    /\ added_compound = <<>>
    /\ mods = [k \in {} |-> 0]
    /\ ledger = <<>>
    /\ registry = [t \in {} |-> ""]
    /\ compound_mod = <<>>
    /\ clock = 0
    /\ hist = <<>>
    /\ last = [op |-> "init", a |-> "", m |-> NoMod, h |-> {}, pre |-> NoScene,
               fresh |-> FALSE, moved |-> FALSE, exc |-> NoExc, ret |-> None,
               log |-> <<>>]

\* attr.set_keyable(value), attr.set_displayable(value), attr.set_locked(value),
\* with the plug given (mplug=...) or not
PlugSet ==
    \E func \in {"set_keyable_", "set_displayable_", "set_locked_"},
       value \in BOOLEAN, mplug_given \in BOOLEAN :
        LET r == Attribute_set(World, func, value, mplug_given) IN
        /\ clock < MaxCommits
        /\ Finish(r, Call("set", func, NoMod))
        /\ IF r.exc = NoExc
           THEN Remember([op |-> "set", func |-> func, v |-> value,
                          before |-> Getter(World, func), flags |-> flags])
           ELSE UNCHANGED hist

\* node.set_locked(value)
NodeSet ==
    \E value \in BOOLEAN :
        /\ clock < MaxCommits
        /\ Finish(DependNode_set_locked(World, value),
                  Call("set", "node_set_locked_", NoMod))
        /\ Remember([op |-> "set", func |-> "node_set_locked_", v |-> value,
                     before |-> Getter(World, "node_set_locked_"), flags |-> flags])

\* an undo of the host application
PropUndo ==
    /\ ledger # <<>>
    /\ Finish(apiundo_undo(World), Call("undo", "", NoMod))
    /\ Remember([op |-> "undo", func |-> "", v |-> FALSE, before |-> FALSE,
                 flags |-> flags])

NextProp ==
    \/ PlugSet
    \/ NodeSet
    \/ PropUndo

SpecProp == InitProp /\ [][NextProp]_vars

----------------------------------------------------------------------------
(* The factory *)

\* PyObject.register(object_type, cls)
Register ==
    \E i \in DOMAIN ObjectType, cls \in Classes :
        /\ Finish(register(World, ObjectType[i], cls), Call("register", cls, NoMod))
        /\ hist' = <<>>

\* PyObject.class_from_api_object(h); hist keeps how the call before ended
\* when it was a resolution too
Resolve ==
    \E h \in Handles :
        /\ Finish(class_from_api_object(World, h),
                  [Call("resolve", "", NoMod) EXCEPT !.h = h])
        /\ hist' = IF last.op = "resolve"
                   THEN <<[op |-> "resolve", h |-> last.h, exc |-> last.exc,
                           ret |-> last.ret]>>
                   ELSE <<>>

\* PyObject(MObject=h), PyObject(MPlug=h), PyObject(MDagPath=h) and PyObject(),
\* and PyObject(h) with h an MObject, an MPlug or an MDagPath
Create ==
    \E key \in {"MObject", "MPlug", "MDagPath", None}, h \in Handles,
       positional \in BOOLEAN :
        /\ positional => key # None
        /\ Finish(IF positional THEN PyObject_create_arg(World, key, h)
                  ELSE PyObject_create(World, {key} \ {None}, h),
                  [Call(IF positional THEN "create_positional" ELSE "create",
                        key, NoMod) EXCEPT !.h = h])
        /\ hist' = <<>>

NextFactory ==
    \/ Register
    \/ Resolve
    \/ Create

SpecFactory == Init /\ [][NextFactory]_vars

----------------------------------------------------------------------------
(* AttrData: construction and the parsing of enum_names *)

\* the names of the enum fields of the calls
EnumNames == {<<"y">>, <<"r", "e">>}

\* the field tables the enum_names strings of the calls are written from
EnumTables == UNION {[1..k -> EnumNames \X (0..MaxEnumValue)] : k \in 1..MaxFields}

\* the string "name=value:name=value" of a field table
RECURSIVE Format(_)
Format(table) ==
    LET n == Len(table)
        field == table[n][1] \o <<"=">> \o str(table[n][2])
    IN  IF n = 1 THEN field
        ELSE Format(SubSeq(table, 1, n - 1)) \o <<":">> \o field

\* the arguments of the calls of AttrData: enum_names is given to enum
\* descriptors only; create_args is not passed (Nothing) or is an empty list
AttrDataArgs ==
    {a \in [long_name : {"ikfk"}, short_name : {None, "ik"},
            attr_type : {None, "ENUM", "COMPOUND", "STRING", "NUMERIC"},
            data_type : {None, "BOOL", "FLOAT3"},
            default_value : {Nothing, Just(1)},
            enum_names : {Nothing} \cup {Just(Format(t)) : t \in EnumTables},
            enum_fields : {Nothing},
            children_count : {Nothing, Just(0), Just(1)},
            create_args : {Nothing, Just(<<>>)}] :
        a.enum_names # Nothing =>
            /\ a.attr_type = "ENUM"
            /\ a.data_type = None
            /\ a.children_count = Nothing}

\* the arguments of a call are drawn at the start: a field table for
\* enum_str_to_field, or the arguments of AttrData
InitAttrData ==
    /\ names = [n \in {TheNode} |-> "node_a"]
    /\ locked = FALSE
    /\ attrs = {}
    /\ flags = [keyable |-> FALSE, channelBox |-> FALSE, locked |-> FALSE]
    /\ fns = [f \in {} |-> 0]
    /\ compound_buffer = <<>>
    /\ added_compound = <<>>
    /\ mods = [k \in {} |-> 0]
    /\ ledger = <<>>
    /\ registry = [t \in {} |-> ""]
    /\ compound_mod = <<>>
    /\ clock = 0
    /\ hist = <<>>
    /\ \/ \E t \in EnumTables :
              last = [op |-> "input", a |-> "enum_str_to_field", m |-> NoMod, h |-> t,
                      pre |-> NoScene, fresh |-> FALSE, moved |-> FALSE,
                      exc |-> NoExc, ret |-> None, log |-> <<>>]
       \/ \E args \in AttrDataArgs :
              last = [op |-> "input", a |-> "AttrData", m |-> NoMod, h |-> args,
                      pre |-> NoScene, fresh |-> FALSE, moved |-> FALSE,
                      exc |-> NoExc, ret |-> None, log |-> <<>>]

\* AttrData.enum_str_to_field(enum_names), enum_names written from the table
EnumStrToField ==
    /\ last.op = "input"
    /\ last.a = "enum_str_to_field"
    /\ LET r == enum_str_to_field(Format(last.h)) IN
       Finish([World EXCEPT !.exc = r.exc, !.ret = r.v],
              [Call("enum_str_to_field", Format(last.h), NoMod) EXCEPT !.h = last.h])
    /\ UNCHANGED hist

\* AttrData(long_name, attr_type=..., data_type=..., ...)
MakeAttrData ==
    /\ last.op = "input"
    /\ last.a = "AttrData"
    /\ LET r == AttrData_init(last.h) IN
       Finish([World EXCEPT !.exc = r.exc,
                            !.ret = IF r.exc = NoExc THEN r.v ELSE None],
              [Call("AttrData", last.h.long_name, NoMod) EXCEPT !.h = last.h])
    /\ UNCHANGED hist

NextAttrData ==
    \/ EnumStrToField
    \/ MakeAttrData

SpecAttrData == InitAttrData /\ [][NextAttrData]_vars

----------------------------------------------------------------------------
(* CompoundModifier and ProxyModifier in the hands of a caller *)

\* children of a compound
MaxChildren == 2

\* the ProxyModifier objects of the calls: doIt locks the node and undoIt
\* unlocks it
Proxies == {ProxyModifier("node_set_locked_", TRUE, FALSE)}

\* the modifier-like objects a caller has at hand
Children == {ModifierRef(m) : m \in CallerMods} \cup Proxies

\* the lists of at most n of them
ChildLists(n) == UNION {[1..k -> Children] : k \in 0..n}

\* c = CompoundModifier(*args)
MakeCompound ==
    \E args \in ChildLists(MaxChildren) :
        /\ compound_mod = <<>>
        /\ Finish(CompoundModifier(World, args), Call("CompoundModifier", "", NoMod))
        /\ UNCHANGED hist

\* c.append(modifier)
CompoundAppend ==
    \E modifier \in Children :
        /\ compound_mod # <<>>
        /\ Len(compound_mod[1].modifiers) < MaxChildren
        /\ Finish(CompoundModifier_append(World, modifier), Call("append", "", NoMod))
        /\ UNCHANGED hist

\* c.extend(iterable)
CompoundExtend ==
    \E iterable \in ChildLists(MaxChildren) :
        /\ compound_mod # <<>>
        /\ Len(compound_mod[1].modifiers) + Len(iterable) <= MaxChildren
        /\ Finish(CompoundModifier_extend(World, iterable), Call("extend", "", NoMod))
        /\ UNCHANGED hist

\* c.doIt(); the call keeps the scene it started from (pre)
CompoundDoIt ==
    /\ compound_mod # <<>>
    /\ clock < MaxCommits
    /\ Finish([CompoundModifier_doIt(World) EXCEPT !.compound[1].ran = TRUE],
              [Call("compound_doIt", "", NoMod) EXCEPT !.pre = Scene(World)])
    /\ UNCHANGED hist

\* c.undoIt()
CompoundUndoIt ==
    /\ compound_mod # <<>>
    /\ Finish(CompoundModifier_undoIt(World),
              [Call("compound_undoIt", "", NoMod) EXCEPT !.pre = Scene(World)])
    /\ UNCHANGED hist

\* ProxyModifier(...).doIt() on a proxy just built
ProxyDoIt ==
    \E p \in Proxies :
        /\ clock < MaxCommits
        /\ Finish(ProxyModifier_doIt(World, p), Call("proxy_doIt", p.do_func, NoMod))
        /\ UNCHANGED hist

\* ProxyModifier(...).undoIt() on a proxy just built, whose doIt was not called
ProxyUndoIt ==
    \E p \in Proxies :
        /\ Finish(ProxyModifier_undoIt(World, p),
                  [Call("proxy_undoIt", p.undo_func, NoMod) EXCEPT !.pre = Scene(World)])
        /\ UNCHANGED hist

\* node.rename(name, _modifier=m) on the modifier of the caller
RenameOn ==
    \E m \in CallerMods :
        /\ Cardinality(Ops(World)) < MaxOps
        /\ Finish(DependNode_rename(World, "node_b", m, FALSE), Call("rename", "", m))
        /\ UNCHANGED hist

\* a caller with a DGModifier, proxies and a compound of them
NextCompound ==
    \/ MakeModifier
    \/ RenameOn
    \/ DoIt
    \/ UndoIt
    \/ MakeCompound
    \/ CompoundAppend
    \/ CompoundExtend
    \/ CompoundDoIt
    \/ CompoundUndoIt
    \/ ProxyDoIt
    \/ ProxyUndoIt

SpecCompound == Init /\ [][NextCompound]_vars

----------------------------------------------------------------------------
(* A modifier that is staged on through add_attr and dropped without doIt *)

\* what a caller can see of the handler and the node: the attributes of the
\* node with their children, the buffer and the list of queued compounds
Outside(w) ==
    [attrs |-> w.attrs, children |-> [f \in w.attrs |-> w.fns[f].children],
     buf |-> w.buf, added |-> w.added]

\* node.add_attr(data), while the caller holds no modifier
AddAttrDefault ==
    \E d \in AttrDatas :
        /\ CallerMods = {}
        /\ Cardinality(DOMAIN fns) < MaxFn
        /\ clock < MaxCommits
        /\ Finish(DependNode_add_attr(World, d, NoMod), AddCall(d, NoMod))
        /\ UNCHANGED hist

\* mod = DGModifier(); hist keeps what the caller sees at this point
MakeStagingModifier ==
    /\ CallerMods = {}
    /\ Finish(NewModifier(World, "caller", FALSE), Call("Modifier", "", NoMod))
    /\ hist' = <<Outside(World)>>

\* node.add_attr(data, _modifier=mod)
StageAttr ==
    \E d \in AttrDatas, m \in CallerMods :
        /\ Cardinality(DOMAIN fns) < MaxFn
        /\ Cardinality(Ops(World)) < MaxOps
        /\ Finish(DependNode_add_attr(World, d, m), AddCall(d, m))
        /\ UNCHANGED hist

\* del mod: the caller drops the modifier, whose doIt was never called
Discard ==
    \E m \in CallerMods :
        /\ ~mods[m].ran
        /\ mods[m].done = 0
        /\ Finish([World EXCEPT !.mods[m].owner = "dropped"],
                  [Call("discard", "", m) EXCEPT !.fresh = mods[m].queue # <<>>])
        /\ UNCHANGED hist

NextDiscard ==
    \/ AddAttrDefault
    \/ MakeStagingModifier
    \/ StageAttr
    \/ Discard

SpecDiscard == Init /\ [][NextDiscard]_vars

----------------------------------------------------------------------------
(* AttrFactory and the bounds of a descriptor *)

\* the values of the bounds of the descriptors
BoundValues == {1, 2}

\* what a bound of a descriptor is: None or a value
Bound == {Nothing} \cup {Just(v) : v \in BoundValues}

\* the descriptors of the calls: a leaf of one of three attribute types, each
\* of the four bounds given or not
BoundedDatas ==
    {[AttrData("a", FALSE, 0, None) EXCEPT
          !.attr_type = t, !.min = b[1], !.max = b[2],
          !.soft_min = b[3], !.soft_max = b[4]] :
        t \in {"NUMERIC", "UNIT", "STRING"}, b \in Bound \X Bound \X Bound \X Bound}

\* fn = AttrFactory(data); the call returns the function set
BuildAttr ==
    \E data \in BoundedDatas :
        LET r == AttrFactory(World, data) IN
        /\ Finish([r EXCEPT !.ret = r.fns[r.new]],
                  [Call("AttrFactory", data.long_name, NoMod) EXCEPT !.h = data])
        /\ UNCHANGED hist

NextBounds == BuildAttr

SpecBounds == Init /\ [][NextBounds]_vars

----------------------------------------------------------------------------
(* A caller who runs doIt of the modifier and does not call purge *)

\* node.add_attr(data) with no modifier, after a doIt of the caller's modifier;
\* the call builds one function set more than the calls before it may leave.
\* It keeps whether it follows that doIt at once (fresh)
LaterAddAttr ==
    \E d \in AttrDatas :
        /\ \E m \in CallerMods : mods[m].ran
        /\ Cardinality(DOMAIN fns) <= MaxFn
        /\ clock < MaxCommits
        /\ Finish(DependNode_add_attr(World, d, NoMod),
                  [AddCall(d, NoMod) EXCEPT
                      !.fresh = last.op = "doIt" /\ last.exc = NoExc])
        /\ UNCHANGED hist

NextStale ==
    \/ MakeModifier
    \/ StageAttr
    \/ DoIt
    \/ LaterAddAttr

SpecStale == Init /\ [][NextStale]_vars

----------------------------------------------------------------------------
(* DGModifier.set_plug_value on the plugs of a node *)

\* children of a compound plug
MaxPlugChildren == 2

\* the values given for a plug
PlugValues == {1, 2}

\* the plugs of the calls: a float, and compounds of 1..MaxPlugChildren floats,
\* made with createPoint (FLOAT3) or with MFnCompoundAttribute (INVALID)
Plugs ==
    {Plug("a", FALSE, 0, "FLOAT")}
        \cup {Plug("grp", TRUE, n, dt) : n \in 1..MaxPlugChildren,
                                          dt \in {"FLOAT3", "INVALID"}}

\* the lists of values of the calls, of every length up to one more than the
\* children of a plug
ValueLists == UNION {[1..k -> PlugValues] : k \in 0..(MaxPlugChildren + 1)}

\* mod.set_plug_value(plug, value), data_type not given
SetPlugValue ==
    \E m \in CallerMods, plug \in Plugs :
        \E value \in IF plug.isCompound THEN ValueLists ELSE PlugValues :
            /\ Cardinality(Ops(World)) < MaxOps
            /\ Finish(set_plug_value(World, m, plug, value, None),
                      [Call("set_plug_value", plug.attr, m) EXCEPT
                          !.h = [plug |-> plug, value |-> value]])
            /\ UNCHANGED hist

NextPlug ==
    \/ MakeModifier
    \/ SetPlugValue

SpecPlug == Init /\ [][NextPlug]_vars

----------------------------------------------------------------------------
(* The claims *)

\* the events of a log that are of the kinds given
Events(log, kinds) == SelectSeq(log, LAMBDA e : e.ev \in kinds)

\* the times a call staged addAttribute for the function set fn
StagedIn(log, fn) ==
    Len(SelectSeq(log, LAMBDA e : e.ev = "stage" /\ e.fn = fn))

\* C1: a compound buffered with children_count = K is not queued on a modifier
\* by a call that leaves it with fewer than K children, and is queued exactly
\* once by the call that adds its K-th child, whatever else is interleaved.
C1_QueuedAtKthChild ==
    [][last'.op = "add_attr" =>
          \A i \in DOMAIN compound_buffer :
              LET c == compound_buffer[i].fn
                  K == compound_buffer[i].count
                  before == Cardinality(fns[c].children)
                  after == IF c \in DOMAIN fns' THEN Cardinality(fns'[c].children)
                           ELSE before
              IN  StagedIn(last'.log, c) = IF before < K /\ after >= K THEN 1 ELSE 0]_vars

\* the K-th child of a buffered compound has been added
C1_KthChildAdded ==
    /\ last.op = "add_attr"
    /\ \E i \in DOMAIN compound_buffer :
           Cardinality(fns[compound_buffer[i].fn].children) >= compound_buffer[i].count

\* C2: purge returns without raising and leaves added_compound empty and no
\* compound that has its children (a compound C1 says is queued) in the
\* buffer; a purge that follows a purge changes nothing; no call stages a
\* compound that is no longer in the buffer.
C2_PurgeRemovesQueuedOnce ==
    [][/\ last'.op = "purge" =>
              /\ last'.exc = NoExc
              /\ added_compound' = <<>>
              /\ \A i \in DOMAIN compound_buffer' :
                     Cardinality(fns'[compound_buffer'[i].fn].children)
                         < compound_buffer'[i].count
              /\ last.op = "purge" =>
                     /\ compound_buffer' = compound_buffer
                     /\ attrs' = attrs
                     /\ mods' = mods
       /\ \A f \in DOMAIN fns :
              fns[f].compound /\ f \notin BufKeys(World) => StagedIn(last'.log, f) = 0]_vars

C4_ToggleTwiceUndoTwice ==
    LET n == Len(hist) IN
    /\ n >= 4 /\ hist[n - 3].op = "set" /\ hist[n - 2].op = "set"
         /\ hist[n - 3].func = hist[n - 2].func
         /\ hist[n - 1].op = "undo" /\ hist[n].op = "undo"
       => Getter(World, hist[n - 3].func) = hist[n - 3].before
    /\ n >= 1 /\ hist[n].op = "set" /\ last.op = "set" /\ last.exc = NoExc
       => /\ ledger # <<>>
          /\ ledger[Len(ledger)].obj.undo_value = hist[n].before
          /\ ledger[Len(ledger)].obj.do_value = hist[n].v
          /\ Getter(World, hist[n].func) = hist[n].v

\* a property that was true was set to false, then to true, and two undos ran
C4_ToggledAndUndone ==
    LET n == Len(hist) IN
    /\ n >= 4
    /\ hist[n - 3].op = "set" /\ hist[n - 3].before /\ ~hist[n - 3].v
    /\ hist[n - 2].op = "set" /\ hist[n - 2].func = hist[n - 3].func /\ hist[n - 2].v
    /\ hist[n - 1].op = "undo" /\ hist[n].op = "undo"
    /\ Getter(World, hist[n - 3].func)

\* C5: the pairs of the ledger lie in the order their commits completed, and
\* an undo pops the pair committed last: pops run in the reverse of the order
\* of the commits.
C5_PopsReverseCommits ==
    [][/\ \A i, j \in DOMAIN ledger' : i < j => ledger'[i].tick < ledger'[j].tick
       /\ last'.op = "undo" =>
              /\ ledger' = SubSeq(ledger, 1, Len(ledger) - 1)
              /\ \A i \in DOMAIN ledger : ledger[i].tick <= ledger[Len(ledger)].tick
              /\ Events(last'.log, {"undoIt"})
                     = <<Event("undoIt", ledger[Len(ledger)].obj.m, 0)>>]_vars

\* two commits pushed a pair each, and an undo has popped the second
C5_SecondCommitPopped ==
    /\ last.op = "undo"
    /\ Len(ledger) = 1
    /\ clock >= 2
    /\ ledger[1].tick < clock

\* the name is on the node, on a compound of the buffer, or on an attribute
\* staged on the caller's modifier and not applied
NameTaken(n) ==
    \/ hasAttribute(World, n)
    \/ \E f \in BufKeys(World) : fns[f].name = n
    \/ \E m \in CallerMods : \E i \in DOMAIN mods[m].queue :
           /\ i > mods[m].done
           /\ mods[m].queue[i].op = "addAttribute"
           /\ fns[mods[m].queue[i].fn].name = n

\* C6: add_attr with a long name that is taken (attached, pending in the
\* buffer, or staged on the caller's modifier) raises NameError and leaves the
\* attribute set and the compound buffer as they were.
C6_DuplicateNameRaises ==
    [][last'.op = "add_attr" /\ NameTaken(last'.a) =>
          /\ last'.exc = "NameError"
          /\ attrs' = attrs
          /\ compound_buffer' = compound_buffer]_vars

\* add_attr was called with a name already staged or pending, and returned
C6_DuplicateAccepted ==
    /\ last.op = "add_attr"
    /\ last.exc = NoExc
    /\ \/ Cardinality({i \in DOMAIN compound_buffer :
                          fns[compound_buffer[i].fn].name = last.a}) > 1
       \/ \E m \in CallerMods :
              Cardinality({i \in DOMAIN mods[m].queue :
                              /\ mods[m].queue[i].op = "addAttribute"
                              /\ fns[mods[m].queue[i].fn].name = last.a}) > 1

\* the call ran to the end of its staging, doIt and push: it returned, or it
\* is create_node and raised in the factory, after them
RanThrough(call) ==
    \/ call.exc = NoExc
    \/ call.op = "create_node" /\ call.exc = "ValueError"

\* C7: a call of add_attr, rename or create_node that is given no modifier
\* runs doIt once on a modifier it has made and then pushes one pair for it;
\* a call that is given a modifier only stages on it: no doIt, no push.
C7_CommitOnlyWithoutModifier ==
    [][last'.op \in {"add_attr", "rename", "create_node"} /\ RanThrough(last') =>
          IF last'.m = NoMod
          THEN LET id == NewId(DOMAIN mods) IN
               /\ Events(last'.log, {"doIt", "commit"})
                      = <<Event("doIt", id, 0), Event("commit", id, 0)>>
               /\ \A i \in DOMAIN last'.log :
                      last'.log[i].ev = "stage" => last'.log[i].m = id
               /\ ledger' = Append(ledger, [obj |-> ModifierRef(id), tick |-> clock'])
               /\ clock' = clock + 1
          ELSE /\ Events(last'.log, {"doIt", "commit", "undoIt"}) = <<>>
               /\ \A i \in DOMAIN last'.log :
                      last'.log[i].ev = "stage" => last'.log[i].m = last'.m
               /\ Len(mods'[last'.m].queue) > Len(mods[last'.m].queue)
               /\ mods'[last'.m].done = mods[last'.m].done
               /\ ledger' = ledger
               /\ clock' = clock
               /\ Scene(World)' = Scene(World)]_vars

\* create_node staged on the caller's modifier, which has run nothing
C7_StagedOnCallerModifier ==
    /\ last.op = "create_node"
    /\ last.m # NoMod
    /\ last.exc = "ValueError"
    /\ mods[last.m].done = 0
    /\ mods[last.m].queue # <<>>

\* C8: in a call, every push follows a doIt of the same object that returned;
\* a call whose doIt raises pushes nothing; every modifier the ledger holds has
\* run doIt to its end.
C8_PushOnlyAfterDoIt ==
    [][/\ \A i \in DOMAIN last'.log :
              last'.log[i].ev = "commit" =>
                  /\ i > 1
                  /\ last'.log[i - 1] = Event("doIt", last'.log[i].m, 0)
       /\ last'.exc = "RuntimeError" =>
              /\ Events(last'.log, {"commit"}) = <<>>
              /\ ledger' = ledger
       /\ \A i \in DOMAIN ledger' :
              ledger'[i].obj.kind = "DGModifier" => mods'[ledger'[i].obj.m].ran]_vars

\* the doIt of a call that had no modifier raised, and nothing was pushed
C8_DoItRaised ==
    /\ last.op = "rename"
    /\ last.m = NoMod
    /\ last.exc = "RuntimeError"
    /\ Events(last.log, {"doIt"}) # <<>>
    /\ locked

\* the coarse category of the handle, 0 when it has none
Category(h) == FirstMatch(h, ObjectType)

\* C9: two resolutions in a row of a handle whose category has a class
\* registered both return a class, and the same one.
C9_SameHandleSameClass ==
    (/\ last.op = "resolve"
     /\ hist # <<>>
     /\ hist[1].h = last.h
     /\ Category(last.h) # 0
     /\ ObjectType[Category(last.h)] \in DOMAIN registry)
    => /\ hist[1].exc = NoExc
       /\ last.exc = NoExc
       /\ last.ret = hist[1].ret

\* a handle whose category has a class registered was resolved twice
C9_RegisteredResolved ==
    /\ last.op = "resolve"
    /\ hist # <<>>
    /\ hist[1].h = last.h
    /\ Category(last.h) # 0
    /\ ObjectType[Category(last.h)] \in DOMAIN registry

\* C10: a resolution raises TypeError when the handle has no coarse category,
\* raises NotImplementedError when it has one and no class is registered, and
\* returns a registered class whenever it returns.
C10_ResolutionErrors ==
    last.op = "resolve" =>
        /\ Category(last.h) = 0 => last.exc = "TypeError"
        /\ Category(last.h) # 0 /\ DOMAIN registry = {} =>
               last.exc = "NotImplementedError"
        /\ last.exc = NoExc => \E t \in DOMAIN registry : registry[t] = last.ret

\* a handle with a category was resolved while nothing was registered
C10_NothingRegistered ==
    /\ last.op = "resolve"
    /\ Category(last.h) # 0
    /\ DOMAIN registry = {}

\* C11: the factory called with one MObject, by position or by the keyword
\* MObject alone, for an object whose category has a class registered, does
\* not raise and returns a registered class.
C11_SingleMObjectAccepted ==
    (/\ last.op \in {"create", "create_positional"}
     /\ last.a = "MObject"
     /\ Category(last.h) # 0
     /\ ObjectType[Category(last.h)] \in DOMAIN registry)
    => /\ last.exc = NoExc
       /\ \E t \in DOMAIN registry : registry[t] = last.ret

\* the factory was given one MObject of a registered category, and raised
C11_MObjectRefused ==
    /\ last.op \in {"create", "create_positional"}
    /\ last.a = "MObject"
    /\ Category(last.h) # 0
    /\ ObjectType[Category(last.h)] \in DOMAIN registry
    /\ last.exc = "ValueError"

\* C12: enum_str_to_field returns the fields of a string name=value:name=value
\* in the order of the string, each with its integer; and an enum descriptor
\* built from such a string with no default value has the smallest integer of
\* the fields as its default value.
C12_EnumFieldsAndDefault ==
    /\ last.op = "enum_str_to_field" =>
           /\ last.exc = NoExc
           /\ last.ret = last.h
    /\ (/\ last.op = "AttrData"
        /\ last.h.attr_type = "ENUM"
        /\ last.h.enum_names # Nothing
        /\ last.h.default_value = Nothing
        /\ last.h.create_args = Nothing)
       => /\ last.exc = NoExc
          /\ last.ret.default_value
                 = Just(min_field(enum_str_to_field(last.h.enum_names[1]).v).v)

\* an enum descriptor was built from a string of two fields, with no default
C12_EnumBuilt ==
    /\ last.op = "AttrData"
    /\ last.h.attr_type = "ENUM"
    /\ last.h.enum_names # Nothing
    /\ Len(enum_str_to_field(last.h.enum_names[1]).v) = 2
    /\ last.h.default_value = Nothing
    /\ last.h.create_args = Nothing

\* C13: AttrData built from a long name and a data type, create_args not
\* passed, returns a descriptor whose short name is the one given or else the
\* long name and whose create_args begin with the long name and the short name.
C13_ConstructionSucceeds ==
    (/\ last.op = "AttrData"
     /\ last.h.attr_type = None
     /\ last.h.data_type \in numeric
     /\ last.h.create_args = Nothing)
    => LET short == IF last.h.short_name = None THEN last.h.long_name
                    ELSE last.h.short_name
       IN  /\ last.exc = NoExc
           /\ last.ret.short_name = short
           /\ last.ret.create_args # Nothing
           /\ SubSeq(last.ret.create_args[1], 1, 2) = <<last.h.long_name, short>>

\* AttrData was built from a long name and a data type only, and raised
C13_ConstructionRaised ==
    /\ last.op = "AttrData"
    /\ last.h.attr_type = None
    /\ last.h.data_type = "BOOL"
    /\ last.h.short_name = None
    /\ last.h.create_args = Nothing
    /\ last.exc = "AttributeError"

\* the events a list of children leaves when each is called once, in the order
\* of the list
ChildEvents(children, ev) == [i \in DOMAIN children |-> Event(ev, children[i].m, 0)]

Reverse(seq) == [i \in DOMAIN seq |-> seq[Len(seq) + 1 - i]]

\* C14: CompoundModifier.undoIt calls undoIt of the children in the reverse of
\* the order of the list, each once.
C14_UndoInReverseOrder ==
    [][last'.op = "compound_undoIt" =>
          Events(last'.log, {"undoIt"})
              = ChildEvents(Reverse(compound_mod[1].modifiers), "undoIt")]_vars

\* a compound of a DGModifier then a ProxyModifier ran doIt, then undoIt
C14_TwoChildrenUndone ==
    /\ last.op = "compound_undoIt"
    /\ compound_mod[1].ran
    /\ Len(compound_mod[1].modifiers) = 2
    /\ compound_mod[1].modifiers[1].kind = "DGModifier"
    /\ compound_mod[1].modifiers[2].kind = "ProxyModifier"
    /\ Len(mods[compound_mod[1].modifiers[1].m].queue) > 0

C16_StagingAfterDoItFails ==
    [][(/\ last'.op \in {"rename", "create_node"}
        /\ last'.m # NoMod
        /\ mods[last'.m].ran)
       => /\ last'.exc = "InvalidOperationError"
          /\ mods'[last'.m].queue = mods[last'.m].queue]_vars

\* rename staged an operation on a modifier whose doIt had run, and returned
C16_StagedAfterDoIt ==
    /\ last.op = "rename"
    /\ last.m # NoMod
    /\ last.exc = NoExc
    /\ mods[last.m].ran
    /\ Len(mods[last.m].queue) > mods[last.m].done

\* C17: undoIt of a DGModifier, of a ProxyModifier or of a CompoundModifier
\* whose doIt was never called raises nothing and leaves the scene and the
\* properties of the plug as they were.
C17_UndoItBeforeDoItIsNoOp ==
    [][(\/ /\ last'.op = "undoIt"
           /\ ~mods[last'.m].ran
           /\ mods[last'.m].done = 0
        \/ last'.op = "proxy_undoIt"
        \/ /\ last'.op = "compound_undoIt"
           /\ ~compound_mod[1].ran)
       => /\ last'.exc = NoExc
          /\ Scene(World)' = Scene(World)
          /\ flags' = flags]_vars

\* undoIt of a ProxyModifier just built unlocked a locked node
C17_ProxyUndoChanged ==
    /\ last.op = "proxy_undoIt"
    /\ last.pre.locked
    /\ ~locked

\* C18: append and extend on a compound whose doIt has been called raise and
\* leave the list of children as it was.
C18_AppendAfterDoItFails ==
    [][last'.op \in {"append", "extend"} /\ compound_mod[1].ran =>
          /\ last'.exc # NoExc
          /\ compound_mod'[1].modifiers = compound_mod[1].modifiers]_vars

\* append added a child to a compound whose doIt had been called
C18_AppendedAfterDoIt ==
    /\ last.op = "append"
    /\ last.exc = NoExc
    /\ compound_mod[1].ran
    /\ Len(compound_mod[1].modifiers) = 2

\* C19: CompoundModifier.doIt calls doIt of every child, also of the ones that
\* follow a child whose doIt raised, and calls no undoIt.
C19_LaterChildrenStillRun ==
    [][last'.op = "compound_doIt" =>
          /\ Len(Events(last'.log, {"doIt"})) = Len(compound_mod[1].modifiers)
          /\ Events(last'.log, {"undoIt"}) = <<>>]_vars

\* doIt of the first of two children raised
C19_FirstChildFailed ==
    /\ last.op = "compound_doIt"
    /\ last.exc = "RuntimeError"
    /\ Len(compound_mod[1].modifiers) = 2
    /\ compound_mod[1].modifiers[1].kind = "DGModifier"
    /\ mods[compound_mod[1].modifiers[1].m].done = 0

\* C20: a call of add_attr with no modifier that returns has run doIt on its
\* modifier, then pushed the pair, then called purge, in that order and each
\* once; it leaves added_compound empty and in the buffer no compound that it
\* or a modifier still alive has queued for attachment.
C20_DefaultAddCommitsAndPurges ==
    [][last'.op = "add_attr" /\ last'.m = NoMod /\ last'.exc = NoExc =>
          LET id == NewId(DOMAIN mods) IN
          /\ Events(last'.log, {"doIt", "commit", "purge"})
                 = <<Event("doIt", id, 0), Event("commit", id, 0), Event("purge", 0, 0)>>
          /\ added_compound' = <<>>
          /\ \A i \in DOMAIN compound_buffer' :
                 LET f == compound_buffer'[i].fn IN
                 /\ StagedIn(last'.log, f) = 0
                 /\ \A k \in DOMAIN mods' : \A j \in DOMAIN mods'[k].queue :
                        mods'[k].queue[j].fn # f]_vars

\* add_attr with no modifier attached an attribute to the node and returned
C20_DefaultAddReturned ==
    /\ last.op = "add_attr"
    /\ last.m = NoMod
    /\ last.exc = NoExc
    /\ attrs # {}
    /\ Events(last.log, {"purge"}) # <<>>

\* the compounds of the buffer that have been given their required children
Complete(w) ==
    {w.buf[i].fn : i \in {j \in DOMAIN w.buf :
                             Cardinality(w.fns[w.buf[j].fn].children) >= w.buf[j].count}}

\* C21: the end of an AttrContext block that returns has run doIt of the
\* caller's modifier once, then pushed one pair when undo is true and none when
\* it is false, then called purge; after it every attribute staged on the
\* modifier and every buffered compound that was given its required children,
\* with these children, is on the node.
C21_ContextExitCommitsAll ==
    [][last'.op = "AttrContext" /\ last'.exc = NoExc =>
          LET m == last'.m
              pushed == IF last'.a = "undo"
                        THEN <<[obj |-> ModifierRef(m), tick |-> clock']>> ELSE <<>>
          IN  /\ Events(last'.log, {"doIt", "undoIt", "commit", "purge"})
                     = <<Event("doIt", m, 0)>>
                         \o [i \in DOMAIN pushed |-> Event("commit", m, 0)]
                         \o <<Event("purge", 0, 0)>>
              /\ ledger' = ledger \o pushed
              /\ \A i \in DOMAIN mods[m].queue :
                     mods[m].queue[i].op = "addAttribute" =>
                         mods[m].queue[i].fn \in attrs'
              /\ \A c \in Complete(World) : FamilyOf(World, c) \subseteq attrs']_vars

\* an AttrContext block with undo ended while the buffer held a compound with
\* its required child, both added in the block
C21_BlockEndedWithCompound ==
    /\ last.op = "AttrContext"
    /\ last.a = "undo"
    /\ last.exc = NoExc
    /\ mods[last.m].ran
    /\ \E i \in DOMAIN compound_buffer :
           /\ compound_buffer[i].count >= 1
           /\ Cardinality(fns[compound_buffer[i].fn].children) >= compound_buffer[i].count

\* the part of C21 the code meets: the order of doIt, the push and purge
C21_ContextExitOrder ==
    [][last'.op = "AttrContext" /\ last'.exc = NoExc =>
          LET m == last'.m
              pushed == IF last'.a = "undo"
                        THEN <<[obj |-> ModifierRef(m), tick |-> clock']>> ELSE <<>>
          IN  /\ Events(last'.log, {"doIt", "undoIt", "commit", "purge"})
                     = <<Event("doIt", m, 0)>>
                         \o [i \in DOMAIN pushed |-> Event("commit", m, 0)]
                         \o <<Event("purge", 0, 0)>>
              /\ ledger' = ledger \o pushed]_vars

\* C22: when a modifier that add_attr calls were made with is dropped without
\* doIt, the attributes of the node, the children of the attached compounds,
\* the buffer and the list of queued compounds are what they were when the
\* modifier was made.
C22_DiscardLeavesNoTrace ==
    last.op = "discard" => Outside(World) = hist[1]

\* a modifier was dropped after add_attr had buffered a compound with it
C22_DiscardedAfterBuffering ==
    /\ last.op = "discard"
    /\ Len(compound_buffer) > Len(hist[1].buf)

\* the part of C22 the code meets: the attributes of the node are untouched
C22_DiscardLeavesNode ==
    last.op = "discard" => attrs = hist[1].attrs

\* C23: a call of an undoable setter (set_keyable, set_displayable, set_locked
\* of an attribute, set_locked of a node) that returns, returns the
\* ProxyModifier it ran and pushed: the one of the last pair of the ledger,
\* whose doIt writes the value asked for.
C23_SetterReturnsItsProxy ==
    last.op = "set" /\ last.exc = NoExc =>
        /\ ledger # <<>>
        /\ ledger[Len(ledger)].obj.do_func = last.a
        /\ last.ret = Just(ledger[Len(ledger)].obj)

\* set_keyable of an attribute pushed its ProxyModifier and returned None
C23_PlugSetterReturnedNone ==
    /\ last.op = "set"
    /\ last.a = "set_keyable_"
    /\ last.exc = NoExc
    /\ ledger # <<>>
    /\ ledger[Len(ledger)].obj.do_func = "set_keyable_"
    /\ last.ret = Nothing

\* the part of C23 the code meets: set_locked of a node returns its ProxyModifier
C23_NodeSetterReturnsItsProxy ==
    last.op = "set" /\ last.a = "node_set_locked_" /\ last.exc = NoExc =>
        /\ ledger # <<>>
        /\ last.ret = Just(ledger[Len(ledger)].obj)

\* C24: the function set AttrFactory builds for a NUMERIC or UNIT descriptor
\* has the minimum, the maximum, the soft minimum and the soft maximum of the
\* descriptor, and a bound the descriptor does not give is not set.
C24_EachBoundOnItsSetter ==
    last.op = "AttrFactory" /\ last.h.attr_type \in {"NUMERIC", "UNIT"} =>
        last.ret.bounds = [min |-> last.h.min, max |-> last.h.max,
                           soft_min |-> last.h.soft_min, soft_max |-> last.h.soft_max]

\* AttrFactory built a NUMERIC attribute from a descriptor with a minimum and
\* a maximum, and the function set has no maximum
C24_MaximumNotSet ==
    /\ last.op = "AttrFactory"
    /\ last.h.attr_type = "NUMERIC"
    /\ last.h.min = Just(1)
    /\ last.h.max = Just(2)
    /\ last.ret.bounds.max = Nothing
    /\ last.ret.bounds.min = Just(2)

\* the part of C24 the code meets: a descriptor that gives no bound, or the
\* minimum only, gets what it gives
C24_MinimumAlone ==
    (/\ last.op = "AttrFactory"
     /\ last.h.max = Nothing /\ last.h.soft_min = Nothing /\ last.h.soft_max = Nothing)
    => last.ret.bounds = [NoBounds EXCEPT !.min = IF last.h.attr_type = "STRING"
                                                    THEN Nothing ELSE last.h.min]

\* C25: node.rename(name) without a modifier, when it returns, returns the name
\* the node has once the rename is committed: the new name.
C25_RenameReturnsNewName ==
    [][last'.op = "rename" /\ last'.m = NoMod /\ last'.exc = NoExc =>
          /\ names'[TheNode] = "node_b"
          /\ last'.ret = names'[TheNode]]_vars

\* rename without a modifier renamed the node and returned the name it had
\* before
C25_RenameReturnedOldName ==
    /\ last.op = "rename"
    /\ last.m = NoMod
    /\ last.exc = NoExc
    /\ names[TheNode] = "node_b"
    /\ last.ret = "node_a"

\* the part of C25 the code meets: the node has the new name after the call
C25_RenameCommitted ==
    [][last'.op = "rename" /\ last'.m = NoMod /\ last'.exc = NoExc =>
          names'[TheNode] = "node_b"]_vars

\* C26: when doIt of the caller's modifier has run and purge was not called, a
\* compound of the buffer that had its required children at that doIt is
\* staged again by the next call of add_attr with no modifier that returns.
C26_StaleCompoundQueuedAgain ==
    [][(/\ last.op = "doIt" /\ last.exc = NoExc
        /\ last'.op = "add_attr" /\ last'.m = NoMod /\ last'.exc = NoExc)
       => \A c \in Complete(World) : StagedIn(last'.log, c) >= 1]_vars

\* add_attr with no modifier returned right after a doIt without purge, with a
\* compound and its required child in the buffer, and did not stage the compound
C26_StaleCompoundLeftAlone ==
    /\ last.op = "add_attr"
    /\ last.m = NoMod
    /\ last.exc = NoExc
    /\ last.fresh
    /\ \E c \in Complete(World) :
           /\ StagedIn(last.log, c) = 0
           /\ fns[c].name # last.a

\* C27: add_attr with a parent name that is neither an attribute of the node
\* nor the name of a compound of the buffer (and with a name of its own that
\* is free on the node) raises the ValueError of _find_pending_compound and
\* leaves the buffer, the list of queued compounds, the queue of the modifier,
\* the node and the ledger as they were: nothing is staged, run or pushed.
C27_UnknownParentRaises ==
    [][(/\ last'.op = "add_attr"
        /\ last'.h.parent # None
        /\ ~hasAttribute(World, last'.h.parent)
        /\ Pending(World, last'.h.parent) = {}
        /\ ~hasAttribute(World, last'.a))
       => /\ last'.exc = "ValueError"
          /\ compound_buffer' = compound_buffer
          /\ added_compound' = added_compound
          /\ attrs' = attrs
          /\ ledger' = ledger
          /\ Events(last'.log, {"stage", "doIt", "commit", "purge"}) = <<>>
          /\ last'.m # NoMod => mods'[last'.m].queue = mods[last'.m].queue]_vars

\* add_attr with an unknown parent raised on a modifier of the caller that
\* holds staged operations
C27_UnknownParentRefused ==
    /\ last.op = "add_attr"
    /\ last.h.parent = "grp"
    /\ Pending(World, "grp") = {}
    /\ last.exc = "ValueError"
    /\ last.m # NoMod
    /\ mods[last.m].queue # <<>>

\* C28: a compound of the buffer that has fewer children than its
\* children_count, before and after a call, is still in the buffer after the
\* call with the same count, was not staged by the call and is not in the list
\* of queued compounds, whatever the call is (add_attr, doIt, undoIt, purge,
\* the end of an AttrContext block, undo).
C28_ShortCompoundStaysBuffered ==
    [][\A i \in DOMAIN compound_buffer :
           LET c == compound_buffer[i].fn
               K == compound_buffer[i].count
               after == IF c \in DOMAIN fns' THEN Cardinality(fns'[c].children) ELSE 0
           IN  Cardinality(fns[c].children) < K /\ after < K =>
                   /\ \E j \in DOMAIN compound_buffer' :
                          compound_buffer'[j] = compound_buffer[i]
                   /\ StagedIn(last'.log, c) = 0
                   /\ \A j \in DOMAIN added_compound' : added_compound'[j] # c]_vars

\* purge ran after a commit and left a compound without children in the buffer
C28_EmptyCompoundSurvivedPurge ==
    /\ last.op = "purge"
    /\ last.exc = NoExc
    /\ clock >= 1
    /\ \E i \in DOMAIN compound_buffer : fns[compound_buffer[i].fn].children = {}

\* C29: set_plug_value on a compound plug with n children and a list of n
\* values stages value[x] on the child x, for every x, in this order; with a
\* list of another length it raises ValueError and stages nothing.
C29_EveryChildStaged ==
    [][last'.op = "set_plug_value" /\ last'.h.plug.isCompound =>
          LET plug == last'.h.plug
              value == last'.h.value
              m == last'.m
          IN  IF Len(value) = plug.numChildren
              THEN /\ last'.exc = NoExc
                   /\ mods'[m].queue
                          = mods[m].queue
                              \o [x \in 1..plug.numChildren |->
                                     PlugOp("newPlugValueFloat", plug_child(plug, x - 1), value[x])]
              ELSE /\ last'.exc = "ValueError"
                   /\ mods'[m].queue = mods[m].queue]_vars

\* set_plug_value was given two values for a compound of two children and
\* staged one
C29_OneChildStaged ==
    /\ last.op = "set_plug_value"
    /\ last.h.plug.isCompound
    /\ last.h.plug.numChildren = 2
    /\ Len(last.h.value) = 2
    /\ last.exc = NoExc
    /\ Len(mods[last.m].queue) = 1
    /\ mods[last.m].queue[1].plug = plug_child(last.h.plug, 0)

\* set_plug_value was given one value for a compound of two children and
\* returned
C29_ShortValueAccepted ==
    /\ last.op = "set_plug_value"
    /\ last.h.plug.isCompound
    /\ last.h.plug.numChildren = 2
    /\ Len(last.h.value) = 1
    /\ last.exc = NoExc
    /\ mods[last.m].queue = <<>>

\* the part of C29 the code meets: what is staged on a child is the value of
\* its index, and a compound of one child gets its one value
C29_FirstChildStaged ==
    [][(/\ last'.op = "set_plug_value" /\ last'.h.plug.isCompound
        /\ Len(last'.h.value) >= last'.h.plug.numChildren)
       => /\ last'.exc = NoExc
          /\ mods'[last'.m].queue
                 = Append(mods[last'.m].queue,
                          PlugOp("newPlugValueFloat", plug_child(last'.h.plug, 0),
                                 last'.h.value[1]))]_vars

\* C30: after attr.set_keyable(v) and then the undo of the host, the keyable
\* flag and the channel-box flag of the plug are what they were before the
\* call, whatever they were.
C30_KeyableUndoRestoresBoth ==
    LET n == Len(hist) IN
    (/\ n >= 2
     /\ hist[n - 1].op = "set" /\ hist[n - 1].func = "set_keyable_"
     /\ hist[n].op = "undo")
    => /\ flags.keyable = hist[n - 1].flags.keyable
       /\ flags.channelBox = hist[n - 1].flags.channelBox

\* set_keyable(True) on a plug that was neither keyable nor in the channel
\* box, then undo: the plug is in the channel box
C30_ChannelBoxNotRestored ==
    LET n == Len(hist) IN
    /\ n >= 2
    /\ hist[n - 1].op = "set" /\ hist[n - 1].func = "set_keyable_" /\ hist[n - 1].v
    /\ ~hist[n - 1].flags.keyable /\ ~hist[n - 1].flags.channelBox
    /\ hist[n].op = "undo"
    /\ ~flags.keyable
    /\ flags.channelBox

\* the part of C30 the code meets: the keyable flag is restored
C30_KeyableRestored ==
    LET n == Len(hist) IN
    (/\ n >= 2
     /\ hist[n - 1].op = "set" /\ hist[n - 1].func = "set_keyable_"
     /\ hist[n].op = "undo")
    => flags.keyable = hist[n - 1].flags.keyable

====
